---- MODULE Spec2Model ----
(***************************************************************************)
(* State-machine model of uamqp.aio Session (_session_async.py): the       *)
(* begin/end lifecycle, the sliding-window flow control of outgoing and    *)
(* incoming Transfers, and the link/handle tables.  Every handler of the   *)
(* class is one action; the frames it hands to                             *)
(* Connection._process_outgoing_frame are recorded in `out`.               *)
(* The second part models uamqp.aio AsyncTransport (_transport_async.py):  *)
(* the exact-length read with its internal buffer, the whole-frame read,   *)
(* connect / close / write and the TLS header negotiation, over a byte     *)
(* stream whose reader delivers, times out or fails at every readexactly.  *)
(***************************************************************************)
EXTENDS Integers, Sequences, FiniteSets, TLC

\* Python's None, for the fields that otherwise hold a non-negative integer
\* (remote_channel, next_incoming_id, frame.handle, frame.next_incoming_id).
None == -1

\* ---------------------------------------------------------------- bounds
\* OutgoingTransfer is not attempted once next_outgoing_id reached this.
MaxOutgoingId == 3
\* IncomingTransfer is not delivered once next_incoming_id reached this.
MaxIncomingId == 3
\* Largest incoming_window / outgoing_window given to the constructor.
MaxWindow == 2
\* Number of Link objects the session ever constructs; an allocation that
\* fails constructs none and is always attempted.
MaxLinks == 2
\* Largest number of payload bytes (after the 8-byte header) of a wire frame.
MaxPayload == 4
\* Largest short read: bytes an incomplete readexactly hands over.
MaxChunk == 1
\* Timeouts that may interrupt the read of one frame.
MaxInterruptions == 2
\* Connections one transport object opens.
MaxConnects == 2

\* ------------------------------------------------------------ value sets
SessionState ==
    {"UNMAPPED", "BEGIN_SENT", "BEGIN_RCVD", "MAPPED", "END_SENT", "END_RCVD", "DISCARDING"}

SessionTransferState == {"Okay", "Error", "Busy"}

ConnectionState == {"OPENED", "CLOSE_RCVD", "END"}

Role == {"Sender", "Receiver"}

LinkNames == {"a", "b"}

\* handle_max values: the constructor's and the ones a peer's Begin carries.
HandleMaxValues == {2, 3}

\* The channel numbers a peer may put in Begin.remote_channel.
PeerChannels == {None, 3}

\* The incoming_window / outgoing_window values a peer advertises in Begin / Flow.
PeerIncomingWindows == {0, 1, 2}

PeerOutgoingWindows == {1, 2}

\* The next_outgoing_id values a peer puts in Begin / Flow.
PeerOutgoingIds == {0, 1}

\* The next_incoming_id values a peer puts in Flow (None: field omitted).
PeerIncomingIds == {None, 0, 1, 2}

\* The handles a peer uses in Attach / Transfer, and in Flow (None: no handle).
PeerHandles == {0, 1}

\* wait argument of begin()/end(): False, True, or a number of seconds.
WaitValues == {"False", "True", "Seconds"}

VARIABLES
    state,                  \* self.state
    handle_max,             \* self.handle_max
    remote_channel,         \* self.remote_channel
    next_outgoing_id,       \* self.next_outgoing_id
    next_incoming_id,       \* self.next_incoming_id
    incoming_window,        \* self.incoming_window
    outgoing_window,        \* self.outgoing_window
    target_incoming_window, \* self.target_incoming_window
    remote_incoming_window, \* self.remote_incoming_window
    remote_outgoing_window, \* self.remote_outgoing_window
    allow_pipelined_open,   \* self.allow_pipelined_open
    links,                  \* self.links: name -> link
    output_handles,         \* self._output_handles: local handle -> link
    input_handles,          \* self._input_handles: peer handle -> link
    link_seq,               \* number of Link objects constructed so far
    op,                     \* the handler / public method that ran last
    out,                    \* frames it handed to _process_outgoing_frame
    raised,                 \* exception that escaped from it ("None" if none)
    delivery,               \* delivery.transfer_state of the last Delivery
    forwarded,              \* links the last handler forwarded its frame to
    set_states,             \* the new_state of each _set_state call it made
    pc,                     \* position of the caller inside _wait_for_response
    call,                   \* the public call in progress or last finished
    window_grant,           \* remote_incoming_window as set by the last Begin/Flow
    transfers_since_grant,  \* Transfer frames sent since then
    rx_round,               \* incoming Transfers since incoming_window was last full
    flows_round,            \* Flow frames the session emitted for them
    connected,              \* AsyncTransport.connected
    writer,                 \* AsyncTransport.reader / .writer: "None" or "open"
    sslopts,                \* AsyncTransport.sslopts (truth value)
    raise_on_initial_eintr, \* AsyncTransport.raise_on_initial_eintr
    read_buffer,            \* AsyncTransport._read_buffer: BytesIO contents and position
    stream,                 \* bytes the peer sends on the current connection
    stream_pos,             \* how many of them the reader has handed over
    rd,                     \* locals of the read() in flight, between two awaits
    returned,               \* what the last read() returned
    progress                \* frames read on this connection; timeouts and short
                            \* reads met by the frame being read or just returned

vars == <<state, handle_max, remote_channel, next_outgoing_id, next_incoming_id,
          incoming_window, outgoing_window, target_incoming_window,
          remote_incoming_window, remote_outgoing_window, allow_pipelined_open,
          links, output_handles, input_handles, link_seq,
          op, out, raised, delivery, forwarded, set_states, pc, call,
          window_grant, transfers_since_grant, rx_round, flows_round,
          connected, writer, sslopts, raise_on_initial_eintr, read_buffer,
          stream, stream_pos, rd, returned, progress>>

counters == <<next_outgoing_id, next_incoming_id, incoming_window, outgoing_window,
              remote_incoming_window, remote_outgoing_window>>

tables == <<links, output_handles, input_handles, link_seq>>

config == <<target_incoming_window, allow_pipelined_open>>

grant == <<window_grant, transfers_since_grant>>

round == <<rx_round, flows_round>>

transport == <<connected, writer, sslopts, raise_on_initial_eintr, read_buffer,
               stream, stream_pos, rd, returned, progress>>

session == <<state, handle_max, remote_channel, counters, config, tables,
             delivery, forwarded, pc, call, grant, round>>

NoCall == [name |-> "none", wait |-> "False", end_state |-> "UNMAPPED", result |-> "none"]

\* No read() in flight.
NoRead ==
    [phase |-> "idle", view |-> << >>, nbytes |-> 0, length |-> 0, toread |-> 0,
     frame_header |-> << >>]

\* read() has returned nothing (yet).
NoFrame == [header |-> << >>, channel |-> None, payload |-> << >>, has_payload |-> FALSE]

NoProgress ==
    [connects |-> 0, frames |-> 0, timeouts |-> 0, short |-> FALSE, open |-> FALSE,
     failed |-> FALSE]

\* io.BytesIO(initial_bytes)
BytesIO(data) == [data |-> data, pos |-> 0]

\* ------------------------------------------------------------ __init__
InitSession ==
    /\ state = "UNMAPPED"
    /\ handle_max \in HandleMaxValues
    /\ remote_channel = None
    /\ next_outgoing_id = 0
    /\ next_incoming_id = None
    /\ incoming_window \in 1..MaxWindow
    /\ outgoing_window = MaxWindow
    /\ target_incoming_window = incoming_window
    /\ remote_incoming_window = 0
    /\ remote_outgoing_window = 0
    /\ allow_pipelined_open \in BOOLEAN
    /\ links = << >>
    /\ output_handles = << >>
    /\ input_handles = << >>
    /\ link_seq = 0
    /\ op = "__init__"
    /\ out = << >>
    /\ raised = "None"
    /\ delivery = "None"
    /\ forwarded = {}
    /\ set_states = << >>
    /\ pc = "idle"
    /\ call = NoCall
    /\ window_grant = 0
    /\ transfers_since_grant = 0
    /\ rx_round = 0
    /\ flows_round = 0

\* AsyncTransport.__init__(host, ssl=ssl, raise_on_initial_eintr=eintr)
InitAsyncTransport(ssl, eintr) ==
    /\ connected = FALSE
    /\ writer = "None"
    /\ sslopts = ssl
    /\ raise_on_initial_eintr = eintr
    /\ read_buffer = BytesIO(<< >>)
    /\ stream = << >>
    /\ stream_pos = 0
    /\ rd = NoRead
    /\ returned = NoFrame
    /\ progress = NoProgress

\* A session, and a transport built with the constructor's defaults.
Init == InitSession /\ InitAsyncTransport(FALSE, TRUE)

\* One session, and a transport built with either setting of ssl and of
\* raise_on_initial_eintr.
InitTransport ==
    /\ InitSession
    /\ handle_max = 3
    /\ incoming_window = MaxWindow
    /\ allow_pipelined_open = TRUE
    /\ \E ssl \in BOOLEAN, eintr \in BOOLEAN : InitAsyncTransport(ssl, eintr)

\* ------------------------------------------------------------ frames
BeginFrames ==
    [remote_channel : PeerChannels, next_outgoing_id : PeerOutgoingIds,
     incoming_window : PeerIncomingWindows, outgoing_window : PeerOutgoingWindows,
     handle_max : HandleMaxValues]

FlowFrames ==
    [next_incoming_id : PeerIncomingIds, incoming_window : PeerIncomingWindows,
     next_outgoing_id : PeerOutgoingIds, outgoing_window : PeerOutgoingWindows,
     handle : {None} \cup PeerHandles]

TransferFrames == [handle : PeerHandles]

AttachFrames == [name : LinkNames, handle : PeerHandles, role : Role]

\* Python truthiness of an optional integer: None and 0 are falsy.
Truthy(x) == x /= None /\ x /= 0

\* `a or b` on optional integers.
Or(a, b) == IF Truthy(a) THEN a ELSE b

Min(S) == CHOOSE x \in S : \A y \in S : x <= y

\* min(a, b) and max(a, b)
Min2(a, b) == IF a <= b THEN a ELSE b

Max2(a, b) == IF a >= b THEN a ELSE b

\* ------------------------------------------------------------ observation
\* What a handler leaves behind for the caller: its name, the frames it handed
\* to the Connection, the exception that escaped, the _set_state calls it made.
Observe(name, frames, exc, transitions) ==
    /\ op' = name
    /\ out' = frames
    /\ raised' = exc
    /\ set_states' = transitions

\* A handler run by the Connection (or by the application between two public
\* calls) does not move the caller of begin()/end().
CallerUnmoved ==
    /\ pc' = pc
    /\ call' = IF pc = "idle" THEN NoCall ELSE call

\* Incoming frames are dispatched while some listen() is running: the
\* application's own, or the one issued by the polling loop.
Listening == pc \in {"idle", "listen"}

\* ------------------------------------------------------------ _wait_for_response
\* Entering _wait_for_response(wait, end_state): with wait False neither branch
\* runs and the call returns; otherwise the first listen() is issued.
EnterWait(name, wait, end_state) ==
    IF wait = "False"
    THEN /\ pc' = "idle"
         /\ call' = [name |-> name, wait |-> wait, end_state |-> end_state,
                     result |-> "returned"]
    ELSE /\ pc' = "listen"
         /\ call' = [name |-> name, wait |-> wait, end_state |-> end_state,
                     result |-> "pending"]

\* self._connection.listen(wait=False) returns to the polling loop.
ListenReturns ==
    /\ pc = "listen"
    /\ pc' = "check"
    /\ UNCHANGED <<state, handle_max, remote_channel, counters, config, transport, tables,
                   op, out, raised, delivery, forwarded, set_states, call, grant, round>>

\* The loop test `while self.state != end_state`.
WaitOver == state = call.end_state

\* The loop test, and for a numeric wait the deadline test; a failed test
\* sleeps and issues the next listen().
WaitCheck ==
    /\ pc = "check"
    /\ \/ /\ WaitOver
          /\ pc' = "idle"
          /\ call' = [call EXCEPT !.result = "returned"]
       \/ /\ ~WaitOver
          /\ call.wait = "Seconds"
          /\ pc' = "idle"
          /\ call' = [call EXCEPT !.result = "returned"]
       \/ /\ ~WaitOver
          /\ pc' = "listen"
          /\ call' = call
    /\ UNCHANGED <<state, handle_max, remote_channel, counters, config, transport, tables,
                   op, out, raised, delivery, forwarded, set_states, grant, round>>

\* ------------------------------------------------------------ begin / end
OutgoingBegin(st, hm) ==
    [type |-> "Begin",
     remote_channel |-> IF st = "BEGIN_RCVD" THEN remote_channel ELSE None,
     next_outgoing_id |-> next_outgoing_id,
     outgoing_window |-> outgoing_window,
     incoming_window |-> incoming_window,
     handle_max |-> hm]

\* The state _wait_for_response is given by begin().
BeginEndState == "BEGIN_SENT"

Begin(wait) ==
    /\ pc = "idle"
    /\ state' = "BEGIN_SENT"
    /\ IF wait /= "False"
       THEN /\ EnterWait("begin", wait, BeginEndState)
            /\ Observe("begin", <<OutgoingBegin(state, handle_max)>>, "None",
                       <<"BEGIN_SENT">>)
       ELSE IF ~allow_pipelined_open
       THEN /\ pc' = "idle"
            /\ call' = [name |-> "begin", wait |-> wait, end_state |-> BeginEndState,
                        result |-> "ValueError"]
            /\ Observe("begin", <<OutgoingBegin(state, handle_max)>>, "ValueError",
                       <<"BEGIN_SENT">>)
       ELSE /\ pc' = "idle"
            /\ call' = [name |-> "begin", wait |-> wait, end_state |-> BeginEndState,
                        result |-> "returned"]
            /\ Observe("begin", <<OutgoingBegin(state, handle_max)>>, "None",
                       <<"BEGIN_SENT">>)
    /\ delivery' = "None"
    /\ forwarded' = {}
    /\ UNCHANGED <<handle_max, remote_channel, counters, config, transport, tables, grant, round>>

OutgoingEnd(error) == [type |-> "End", error |-> error]

End(error, wait) ==
    /\ pc = "idle"
    /\ state' = IF error THEN "DISCARDING" ELSE "END_SENT"
    /\ Observe("end",
               IF state \notin {"UNMAPPED", "DISCARDING"}
               THEN <<OutgoingEnd(error)>> ELSE << >>,
               "None", <<state'>>)
    /\ EnterWait("end", wait, "UNMAPPED")
    /\ delivery' = "None"
    /\ forwarded' = {}
    /\ UNCHANGED <<handle_max, remote_channel, counters, config, transport, tables, grant, round>>

OnConnectionStateChange(cs) ==
    /\ Listening
    /\ IF cs \in {"CLOSE_RCVD", "END"} /\ state \notin {"DISCARDING", "UNMAPPED"}
       THEN /\ state' = "DISCARDING"
            /\ Observe("_on_connection_state_change", << >>, "None", <<"DISCARDING">>)
       ELSE /\ state' = state
            /\ Observe("_on_connection_state_change", << >>, "None", << >>)
    /\ CallerUnmoved
    /\ delivery' = "None"
    /\ forwarded' = {}
    /\ UNCHANGED <<handle_max, remote_channel, counters, config, transport, tables, grant, round>>

BeginNextIncomingId_Own(frame) == next_outgoing_id

\* `self.next_incoming_id = frame.next_outgoing_id`
BeginNextIncomingId(frame) == frame.next_outgoing_id

IncomingBegin(frame) ==
    /\ Listening
    /\ handle_max' = frame.handle_max
    /\ next_incoming_id' = BeginNextIncomingId(frame)
    /\ remote_incoming_window' = frame.incoming_window
    /\ remote_outgoing_window' = frame.outgoing_window
    /\ IF state = "BEGIN_SENT"
       THEN /\ remote_channel' = frame.remote_channel
            /\ state' = "MAPPED"
            /\ Observe("_incoming_begin", << >>, "None", <<"MAPPED">>)
       ELSE IF state = "UNMAPPED"
       THEN /\ remote_channel' = remote_channel
            /\ state' = "MAPPED"
            /\ Observe("_incoming_begin",
                       <<OutgoingBegin("BEGIN_RCVD", frame.handle_max)>>, "None",
                       <<"BEGIN_RCVD", "MAPPED">>)
       ELSE /\ remote_channel' = remote_channel
            /\ state' = state
            /\ Observe("_incoming_begin", << >>, "None", << >>)
    /\ CallerUnmoved
    /\ delivery' = "None"
    /\ forwarded' = {}
    /\ window_grant' = frame.incoming_window
    /\ transfers_since_grant' = 0
    /\ UNCHANGED <<next_outgoing_id, incoming_window, outgoing_window, config, transport, tables,
                   round>>

\* ------------------------------------------------------------ from_incoming_frame
\* kwargs.get('handle_max', 4294967295): the constructor's default lies above
\* the integers the checker holds, and the largest of them stands for it. A
\* session built with the defaults allocates no handle in any specification
\* here, so the value is only stored and sent.
DefaultHandleMax == 2147483647

\* Session.from_incoming_frame(connection, channel, frame): cls(connection,
\* channel) builds a session from the constructor's defaults, and
\* new_session._incoming_begin(frame) without await only creates a coroutine
\* object that is dropped: no statement of _incoming_begin runs, nothing is
\* sent, and the session is returned as constructed.
FromIncomingFrame(frame) ==
    /\ state' = "UNMAPPED"
    /\ handle_max' = DefaultHandleMax
    /\ remote_channel' = None
    /\ next_outgoing_id' = 0
    /\ next_incoming_id' = None
    /\ incoming_window' = 1
    /\ outgoing_window' = 1
    /\ target_incoming_window' = 1
    /\ remote_incoming_window' = 0
    /\ remote_outgoing_window' = 0
    /\ allow_pipelined_open' = TRUE
    /\ links' = << >>
    /\ output_handles' = << >>
    /\ input_handles' = << >>
    /\ link_seq' = 0
    /\ Observe("from_incoming_frame", << >>, "None", << >>)
    /\ delivery' = "None"
    /\ forwarded' = {}
    /\ pc' = "idle"
    /\ call' = NoCall
    /\ window_grant' = 0
    /\ transfers_since_grant' = 0
    /\ rx_round' = 0
    /\ flows_round' = 0
    /\ UNCHANGED transport

\* The states in which _incoming_end sends no End of its own.
EndAlreadyUnderway == {"END_RCVD", "END_SENT", "DISCARDING"}

IncomingEnd ==
    /\ Listening
    /\ IF state \notin EndAlreadyUnderway
       THEN Observe("_incoming_end", <<OutgoingEnd(FALSE)>>, "None",
                    <<"END_RCVD", "UNMAPPED">>)
       ELSE Observe("_incoming_end", << >>, "None", <<"UNMAPPED">>)
    /\ state' = "UNMAPPED"
    /\ CallerUnmoved
    /\ delivery' = "None"
    /\ forwarded' = {}
    /\ UNCHANGED <<handle_max, remote_channel, counters, config, transport, tables, grant, round>>

\* ------------------------------------------------------------ flow control
\* _outgoing_flow() with no link frame: the session's fields at the time of the call.
OutgoingFlow(niid, iw) ==
    [type |-> "Flow",
     next_incoming_id |-> niid,
     incoming_window |-> iw,
     next_outgoing_id |-> next_outgoing_id,
     outgoing_window |-> outgoing_window]

TransferFrame(delivery_id) == [type |-> "Transfer", delivery_id |-> delivery_id]

IncomingFlow(frame) ==
    LET remote_incoming_id == Or(frame.next_incoming_id, next_outgoing_id) IN
    /\ Listening
    /\ next_incoming_id' = frame.next_outgoing_id
    /\ remote_incoming_window' =
           remote_incoming_id + frame.incoming_window - next_outgoing_id
    /\ remote_outgoing_window' = frame.outgoing_window
    /\ IF Truthy(frame.handle)
       THEN IF frame.handle \in DOMAIN input_handles
            THEN /\ forwarded' = {input_handles[frame.handle]}
                 /\ Observe("_incoming_flow", << >>, "None", << >>)
            ELSE /\ forwarded' = {}
                 /\ Observe("_incoming_flow", << >>, "KeyError", << >>)
       ELSE /\ forwarded' = IF remote_incoming_window' > 0
                            THEN {output_handles[h] : h \in DOMAIN output_handles}
                            ELSE {}
            /\ Observe("_incoming_flow", << >>, "None", << >>)
    /\ CallerUnmoved
    /\ delivery' = "None"
    /\ window_grant' = remote_incoming_window'
    /\ transfers_since_grant' = 0
    /\ UNCHANGED <<state, handle_max, remote_channel, next_outgoing_id,
                   incoming_window, outgoing_window, config, transport, tables, round>>

WindowExhausted_OffByOne == remote_incoming_window < 0

\* `if self.remote_incoming_window <= 0`
WindowExhausted == remote_incoming_window <= 0

StampedDeliveryId_AfterAdvance == next_outgoing_id + 1

\* `delivery.frame['delivery_id'] = self.next_outgoing_id`
StampedDeliveryId == next_outgoing_id

\* The first test, `if self.state != MAPPED: transfer_state = Error`, has no
\* return and no else: the if/else on the window that follows assigns
\* transfer_state on both of its branches and is the one that decides.
OutgoingTransfer ==
    /\ pc = "idle"
    /\ next_outgoing_id < MaxOutgoingId
    /\ IF WindowExhausted
       THEN /\ delivery' = "Busy"
            /\ Observe("_outgoing_transfer", << >>, "None", << >>)
            /\ UNCHANGED <<next_outgoing_id, remote_incoming_window, outgoing_window,
                           transfers_since_grant>>
       ELSE /\ Observe("_outgoing_transfer", <<TransferFrame(StampedDeliveryId)>>,
                       "None", << >>)
            /\ next_outgoing_id' = next_outgoing_id + 1
            /\ remote_incoming_window' = remote_incoming_window - 1
            /\ outgoing_window' = outgoing_window - 1
            /\ delivery' = "Okay"
            /\ transfers_since_grant' = transfers_since_grant + 1
    /\ CallerUnmoved
    /\ forwarded' = {}
    /\ UNCHANGED <<state, handle_max, remote_channel, next_incoming_id, incoming_window,
                   remote_outgoing_window, config, transport, tables, window_grant, round>>

IncomingWindowUsedUp_Late(window) == window < 0

\* `if self.incoming_window == 0`, on the decremented window
IncomingWindowUsedUp(window) == window = 0

IncomingTransfer(frame) ==
    /\ Listening
    /\ IF next_incoming_id = None
       THEN \* `None += 1`
            /\ Observe("_incoming_transfer", << >>, "TypeError", << >>)
            /\ forwarded' = {}
            /\ UNCHANGED <<next_incoming_id, remote_outgoing_window, incoming_window,
                           round>>
       ELSE /\ next_incoming_id < MaxIncomingId
            /\ next_incoming_id' = next_incoming_id + 1
            /\ remote_outgoing_window' = remote_outgoing_window - 1
            /\ forwarded' = IF frame.handle \in DOMAIN input_handles
                            THEN {input_handles[frame.handle]} ELSE {}
            /\ rx_round' = IF flows_round > 0 THEN 1 ELSE rx_round + 1
            /\ IF IncomingWindowUsedUp(incoming_window - 1)
               THEN /\ incoming_window' = target_incoming_window
                    /\ Observe("_incoming_transfer",
                               <<OutgoingFlow(next_incoming_id + 1,
                                              target_incoming_window)>>,
                               "None", << >>)
                    /\ flows_round' = IF flows_round > 0 THEN 1 ELSE flows_round + 1
               ELSE /\ incoming_window' = incoming_window - 1
                    /\ Observe("_incoming_transfer", << >>, "None", << >>)
                    /\ flows_round' = IF flows_round > 0 THEN 0 ELSE flows_round
    /\ CallerUnmoved
    /\ delivery' = "None"
    /\ UNCHANGED <<state, handle_max, remote_channel, next_outgoing_id, outgoing_window,
                   remote_incoming_window, config, transport, tables, grant>>

\* ------------------------------------------------------------ links and handles
FreeHandles == {i \in 1..(handle_max - 1) : i \notin DOMAIN output_handles}

\* The exception _get_next_output_handle ends with, "None" when it returns.
NextOutputHandleError ==
    IF Cardinality(DOMAIN output_handles) >= handle_max THEN "ValueError"
    ELSE IF FreeHandles = {} THEN "StopIteration"
    ELSE "None"

GetNextOutputHandle_FromZero ==
    Min({i \in 0..(handle_max - 1) : i \notin DOMAIN output_handles})

GetNextOutputHandle == Min(FreeHandles)

MirroredRole_Same(role) == role

\* `if frame.role == Role.Sender: ReceiverLink ... else: SenderLink`
MirroredRole(role) == IF role = "Sender" THEN "Receiver" ELSE "Sender"

NewLink(name, role, handle) ==
    [id |-> link_seq + 1, name |-> name, role |-> role, handle |-> handle]

CreateLink(opname, name, role) ==
    /\ pc = "idle"
    /\ NextOutputHandleError /= "None" \/ link_seq < MaxLinks
    /\ IF NextOutputHandleError /= "None"
       THEN /\ Observe(opname, << >>, NextOutputHandleError, << >>)
            /\ UNCHANGED tables
       ELSE LET link == NewLink(name, role, GetNextOutputHandle) IN
            /\ Observe(opname, << >>, "None", << >>)
            /\ links' = (name :> link) @@ links
            /\ output_handles' = (GetNextOutputHandle :> link) @@ output_handles
            /\ link_seq' = link_seq + 1
            /\ UNCHANGED input_handles
    /\ CallerUnmoved
    /\ delivery' = "None"
    /\ forwarded' = {}
    /\ UNCHANGED <<state, handle_max, remote_channel, counters, config, transport, grant, round>>

CreateReceiverLink(name) == CreateLink("create_receiver_link", name, "Receiver")

CreateSenderLink(name) == CreateLink("create_sender_link", name, "Sender")

IncomingAttach(frame) ==
    /\ Listening
    /\ IF frame.name \in DOMAIN links
       THEN /\ input_handles' = (frame.handle :> links[frame.name]) @@ input_handles
            /\ forwarded' = {links[frame.name]}
            /\ Observe("_incoming_attach", << >>, "None", << >>)
            /\ UNCHANGED <<links, output_handles, link_seq>>
       ELSE /\ NextOutputHandleError /= "None" \/ link_seq < MaxLinks
            /\ IF NextOutputHandleError /= "None"
               THEN \* raised inside the `except KeyError` clause: the sibling
                    \* `except ValueError` does not apply; a StopIteration leaving a
                    \* coroutine surfaces as RuntimeError
                    /\ Observe("_incoming_attach", << >>,
                               IF NextOutputHandleError = "StopIteration"
                               THEN "RuntimeError" ELSE NextOutputHandleError, << >>)
                    /\ forwarded' = {}
                    /\ UNCHANGED tables
               ELSE LET new_link == NewLink(frame.name, MirroredRole(frame.role),
                                            GetNextOutputHandle) IN
                    /\ Observe("_incoming_attach", << >>, "None", << >>)
                    /\ forwarded' = {new_link}
                    /\ links' = (frame.name :> new_link) @@ links
                    /\ output_handles' = (GetNextOutputHandle :> new_link) @@ output_handles
                    /\ input_handles' = (frame.handle :> new_link) @@ input_handles
                    /\ link_seq' = link_seq + 1
    /\ CallerUnmoved
    /\ delivery' = "None"
    /\ UNCHANGED <<state, handle_max, remote_channel, counters, config, transport, grant, round>>

\* ------------------------------------------------------------ wire format
\* The frames a peer sends: the declared size (0, or 8 plus the payload bytes)
\* and the data offset, in 4-byte words, of each.
WireFrameShapes ==
    {[size |-> 0, doff |-> 2]} \cup
    {sh \in [size : 8..(8 + MaxPayload), doff : 2..3] : sh.doff * 4 <= sh.size}

\* The channel the peer's frames are sent on.
PeerFrameChannel == 7

\* uint32 size | uint8 data_offset | uint8 type | uint16 channel, then the
\* bytes after the header; byte i of them is tag + i.
WireFrame(sh, tag) ==
    <<0, 0, 0, sh.size, sh.doff, 0, 0, PeerFrameChannel>> \o
    [i \in 1..(IF sh.size = 0 THEN 0 ELSE sh.size - 8) |-> tag + i]

\* The frame that follows the first one on every stream.
FollowingFrame == WireFrame([size |-> 9, doff |-> 2], 20)

Streams == {WireFrame(sh, 10) \o FollowingFrame : sh \in WireFrameShapes}

MaxStreamLen == 8 + MaxPayload + Len(FollowingFrame)

\* unpack_frame_header: struct '>IBBH' on the 8 header bytes.
UnpackFrameHeader(h) ==
    [size |-> ((h[1] * 256 + h[2]) * 256 + h[3]) * 256 + h[4],
     offset |-> h[5],
     frame_type |-> h[6],
     channel |-> h[7] * 256 + h[8]]

\* The TLS protocol header, "AMQP" 2 1 0 0.
TLS_HEADER_FRAME == <<65, 77, 81, 80, 2, 1, 0, 0>>

\* The AMQP protocol header, "AMQP" 0 1 0 0.
AMQP_HEADER_FRAME == <<65, 77, 81, 80, 0, 1, 0, 0>>

\* ------------------------------------------------------------ buffers
\* No read can fill more of a view than the bytes all connections deliver;
\* a view declared longer is kept up to that length.
ViewCap == MaxConnects * MaxStreamLen

\* memoryview(bytearray(n))
Bytes(n) == [i \in 1..Min2(n, ViewCap) |-> 0]

\* view[start:start + len(chunk)] = chunk
SliceAssign(view, start, chunk) ==
    [i \in 1..Len(view) |->
        IF start < i /\ i <= start + Len(chunk) THEN chunk[i - start] ELSE view[i]]

\* seq[o:] with Python's treatment of a negative or too large o
SliceFrom(seq, o) ==
    LET start == IF o >= 0 THEN Min2(o, Len(seq)) ELSE Max2(Len(seq) + o, 0) IN
    SubSeq(seq, start + 1, Len(seq))

\* _read(toread, buffer=...) up to its first await: the view, what
\* self._read_buffer.readinto(view) put into it, and the buffer afterwards.
StartRead(toread, buf) ==
    LET view == Bytes(toread)
        got == Min2(Len(view), Len(buf.data) - buf.pos) IN
    [view |-> [i \in 1..Len(view) |-> IF i <= got THEN buf.data[buf.pos + i] ELSE 0],
     nbytes |-> got,
     length |-> got,
     toread |-> toread - got,
     buf |-> [buf EXCEPT !.pos = @ + got]]

\* ------------------------------------------------------------ read
\* read() returns (frame_header, channel, payload).
ReadReturns(result, buf, prog) ==
    /\ rd' = NoRead
    /\ read_buffer' = buf
    /\ returned' = result
    /\ progress' = [prog EXCEPT !.frames = @ + 1, !.open = FALSE]
    /\ Observe("read", << >>, "None", << >>)
    /\ UNCHANGED connected

\* read() ends with an exception other than a timeout; OSError and IOError
\* take the second except clause, which marks the transport disconnected.
ReadRaises(exc, buf, prog) ==
    /\ rd' = NoRead
    /\ read_buffer' = buf
    /\ returned' = NoFrame
    /\ progress' = [prog EXCEPT !.open = FALSE]
    /\ Observe("read", << >>, exc, << >>)
    /\ connected' = IF exc \in {"OSError", "IOError"} THEN FALSE ELSE connected

\* `offset -= 2` and `return frame_header, channel, payload[offset:]`
PayloadFrom(payload, offset) == SliceFrom(payload, offset - 2)

PayloadRead(l, buf, prog) ==
    LET h == UnpackFrameHeader(l.frame_header) IN
    ReadReturns([header |-> l.frame_header, channel |-> h.channel,
                 payload |-> PayloadFrom(l.view, h.offset), has_payload |-> TRUE],
                buf, prog)

\* read() is suspended in `await self.reader.readexactly(toread)`, having
\* returned nothing yet.
ReadAwaits(l, buf, prog) ==
    /\ rd' = l
    /\ read_buffer' = buf
    /\ returned' = NoFrame
    /\ progress' = prog
    /\ Observe("read", << >>, "None", << >>)
    /\ UNCHANGED connected

\* read() goes on from the locals l of the _read that just received bytes,
\* until the next readexactly is awaited or read() is over.
Resume(l, buf, prog) ==
    IF l.toread > 0
    THEN ReadAwaits(l, buf, prog)
    ELSE IF l.phase = "payload"
    THEN PayloadRead(l, buf, prog)
    ELSE LET h == UnpackFrameHeader(l.view) IN
         IF h.size = 0
         THEN ReadReturns([header |-> l.view, channel |-> h.channel,
                           payload |-> << >>, has_payload |-> FALSE], buf, prog)
         ELSE IF h.size - 8 < 0
         THEN \* bytearray(payload_size) with a negative size
              ReadRaises("ValueError", buf, prog)
         ELSE LET p == StartRead(h.size - 8, buf)
                  l2 == [phase |-> "payload", view |-> p.view, nbytes |-> p.nbytes,
                         length |-> p.length, toread |-> p.toread,
                         frame_header |-> l.view] IN
              IF p.toread > 0
              THEN ReadAwaits(l2, p.buf, prog)
              ELSE PayloadRead(l2, p.buf, prog)

\* read() is called: the lock is taken and _read(8, initial=True) runs up to
\* its first readexactly.
ReadStart ==
    /\ rd.phase = "idle"
    /\ writer = "open"
    /\ LET p == StartRead(8, read_buffer)
           l == [phase |-> "header", view |-> p.view, nbytes |-> p.nbytes,
                 length |-> p.length, toread |-> p.toread, frame_header |-> << >>]
           prog == IF progress.open THEN progress
                   ELSE [progress EXCEPT !.timeouts = 0, !.short = FALSE] IN
       Resume(l, p.buf, prog)
    /\ UNCHANGED <<writer, sslopts, raise_on_initial_eintr, stream, stream_pos, session>>

\* `except:` of _read: self._read_buffer = BytesIO(view[:length])
Rebuffered == BytesIO(SubSeq(rd.view, 1, rd.length))

\* socket.timeout leaves _read and is caught by the first except clause of
\* read(): what was read of the frame so far, the header already taken
\* included, becomes the buffer again.
ReadTimesOut ==
    /\ progress.timeouts < MaxInterruptions
    /\ rd' = NoRead
    /\ read_buffer' = BytesIO(rd.frame_header \o Rebuffered.data)
    /\ returned' = NoFrame
    /\ progress' = [progress EXCEPT !.timeouts = @ + 1, !.open = TRUE]
    /\ Observe("read", << >>, "timeout", << >>)
    /\ UNCHANGED <<connected, stream_pos>>

\* The offset a chunk received by the awaited readexactly is stored at:
\* `view[nbytes:nbytes + toread] = ...` and `view[nbytes:nbytes + pbytes] = ...`
ChunkOffset == rd.nbytes

\* The awaited readexactly(toread) hands over k bytes: all of them (k =
\* toread), or fewer in an IncompleteReadError whose partial is stored and
\* counted before the loop asks for the rest.
ReaderDelivers(k) ==
    /\ rd.phase /= "idle"
    /\ ~progress.failed
    /\ 1 <= k
    /\ k <= rd.toread
    /\ k <= Len(stream) - stream_pos
    /\ LET chunk == SubSeq(stream, stream_pos + 1, stream_pos + k)
           l == [rd EXCEPT !.view = SliceAssign(@, ChunkOffset, chunk),
                           !.nbytes = k,
                           !.length = @ + k,
                           !.toread = @ - k]
           prog == IF k < rd.toread THEN [progress EXCEPT !.short = TRUE]
                   ELSE progress IN
       Resume(l, read_buffer, prog)
    /\ stream_pos' = stream_pos + k
    /\ UNCHANGED <<writer, sslopts, raise_on_initial_eintr, stream, session>>

\* The awaited readexactly raises socket.timeout.
ReaderTimeout ==
    /\ rd.phase /= "idle"
    /\ ~progress.failed
    /\ ReadTimesOut
    /\ UNCHANGED <<writer, sslopts, raise_on_initial_eintr, stream, session>>

\* The awaited readexactly raises socket.error with an errno of _errnos
\* (ENOENT, EAGAIN, EINTR): a timeout for the first read of a frame when
\* raise_on_initial_eintr is set, otherwise `continue`.
ReaderErrno ==
    /\ rd.phase /= "idle"
    /\ ~progress.failed
    /\ IF rd.phase = "header" /\ raise_on_initial_eintr
       THEN ReadTimesOut
       ELSE /\ ReadAwaits(rd, read_buffer, progress)
            /\ UNCHANGED stream_pos
    /\ UNCHANGED <<writer, sslopts, raise_on_initial_eintr, stream, session>>

\* The peer has closed the stream: readexactly raises IncompleteReadError
\* with an empty partial, `if not nbytes` raises IOError.
ReaderEof ==
    /\ rd.phase /= "idle"
    /\ stream_pos = Len(stream) \/ progress.failed
    /\ ReadRaises("IOError", Rebuffered, [progress EXCEPT !.failed = TRUE])
    /\ UNCHANGED <<writer, sslopts, raise_on_initial_eintr, stream, stream_pos, session>>

\* The awaited readexactly raises socket.error with any other errno.
ReaderError ==
    /\ rd.phase /= "idle"
    /\ ReadRaises("OSError", Rebuffered, [progress EXCEPT !.failed = TRUE])
    /\ UNCHANGED <<writer, sslopts, raise_on_initial_eintr, stream, stream_pos, session>>

\* What read() returns for the frame that starts after the first `start` bytes
\* of s when every readexactly hands over all it was asked for.
UninterruptedRead(s, start) ==
    LET header == SubSeq(s, start + 1, start + 8)
        h == UnpackFrameHeader(header) IN
    IF h.size = 0
    THEN [header |-> header, channel |-> h.channel, payload |-> << >>,
          has_payload |-> FALSE]
    ELSE [header |-> header, channel |-> h.channel,
          payload |-> PayloadFrom(SubSeq(s, start + 9, start + h.size), h.offset),
          has_payload |-> TRUE]

\* The stream position after that frame: the header, and the payload if any.
FrameEnd(s, start) ==
    start + Max2(UnpackFrameHeader(SubSeq(s, start + 1, start + 8)).size, 8)

\* ------------------------------------------------------------ connect / close / write
\* connect(): nothing when already connected; otherwise a new socket and a new
\* reader / writer pair, on which the peer sends s, or OSError.
Connect(s, ok) ==
    /\ rd.phase = "idle"
    /\ IF connected
       THEN /\ Observe("connect", << >>, "None", << >>)
            /\ UNCHANGED <<connected, writer, stream, stream_pos, progress>>
       ELSE /\ progress.connects < MaxConnects
            /\ IF ok
               THEN /\ connected' = TRUE
                    /\ writer' = "open"
                    /\ stream' = s
                    /\ stream_pos' = 0
                    /\ progress' = [NoProgress EXCEPT !.connects = progress.connects + 1]
                    /\ Observe("connect", << >>, "None", << >>)
               ELSE /\ Observe("connect", << >>, "OSError", << >>)
                    /\ UNCHANGED <<connected, writer, stream, stream_pos, progress>>
    /\ UNCHANGED <<sslopts, raise_on_initial_eintr, read_buffer, rd, returned, session>>

\* close()
Close ==
    /\ rd.phase = "idle"
    /\ writer' = "None"
    /\ connected' = FALSE
    /\ Observe("close", << >>, "None", << >>)
    /\ UNCHANGED <<sslopts, raise_on_initial_eintr, read_buffer, stream, stream_pos, rd,
                   returned, progress, session>>

\* write(s): self.writer.write(s)
Write(s) ==
    /\ rd.phase = "idle"
    /\ IF writer = "None"
       THEN Observe("write", << >>, "AttributeError", << >>)
       ELSE Observe("write", <<s>>, "None", << >>)
    /\ UNCHANGED <<transport, session>>

\* negotiate(): returns at once without sslopts; with them the first statement
\* calls self.wriate, which AsyncTransport does not have.
Negotiate ==
    /\ rd.phase = "idle"
    /\ IF ~sslopts
       THEN Observe("negotiate", << >>, "None", << >>)
       ELSE Observe("negotiate", << >>, "AttributeError", << >>)
    /\ UNCHANGED <<transport, session>>

\* ------------------------------------------------------------ specifications
\* Lifecycle: begin()/end() with every wait mode, and the peer's Begin / End.
NextLife ==
    \/ \E wait \in WaitValues : Begin(wait)
    \/ \E error \in BOOLEAN, wait \in WaitValues : End(error, wait)
    \/ ListenReturns
    \/ WaitCheck
    \/ \E cs \in ConnectionState : OnConnectionStateChange(cs)
    \/ \E frame \in BeginFrames : IncomingBegin(frame)
    \/ IncomingEnd

SpecLife == Init /\ [][NextLife]_vars

\* The polling coroutine is scheduled again after every listen() and sleep().
FairSpecLife == SpecLife /\ WF_vars(ListenReturns) /\ WF_vars(WaitCheck)

\* Sending: outgoing Transfers against the window the peer grants in Begin and
\* Flow, in every session state the lifecycle reaches.
SendBeginFrames ==
    {f \in BeginFrames : /\ f.remote_channel = None
                         /\ f.next_outgoing_id = 0
                         /\ f.outgoing_window = 1
                         /\ f.handle_max = 3}

SendFlowFrames ==
    {f \in FlowFrames : f.next_outgoing_id = 0 /\ f.outgoing_window = 1 /\ f.handle = None}

NextSend ==
    \/ Begin("False")
    \/ \E error \in BOOLEAN : End(error, "False")
    \/ \E cs \in ConnectionState : OnConnectionStateChange(cs)
    \/ \E frame \in SendBeginFrames : IncomingBegin(frame)
    \/ IncomingEnd
    \/ \E frame \in SendFlowFrames : IncomingFlow(frame)
    \/ OutgoingTransfer

SpecSend == Init /\ [][NextSend]_vars

\* Receiving: incoming Transfers on bound and unbound handles, interleaved
\* with the peer's Begin / Flow / Attach.
RecvBeginFrames ==
    {f \in BeginFrames : /\ f.remote_channel = None
                         /\ f.incoming_window = 2
                         /\ f.handle_max = 3}

RecvFlowFrames ==
    {f \in FlowFrames : /\ f.next_incoming_id = None
                        /\ f.incoming_window = 2
                        /\ f.outgoing_window = 2}

RecvAttachFrames == {f \in AttachFrames : f.role = "Sender"}

NextRecv ==
    \/ \E frame \in RecvBeginFrames : IncomingBegin(frame)
    \/ \E frame \in RecvFlowFrames : IncomingFlow(frame)
    \/ \E frame \in TransferFrames : IncomingTransfer(frame)
    \/ \E frame \in RecvAttachFrames : IncomingAttach(frame)

SpecRecv == Init /\ [][NextRecv]_vars

\* Links: the application's create_*_link calls and the peer's Attach, with a
\* peer Begin that replaces handle_max while links exist.
LinkBeginFrames ==
    {f \in BeginFrames : /\ f.remote_channel = None
                         /\ f.next_outgoing_id = 0
                         /\ f.incoming_window = 1
                         /\ f.outgoing_window = 1}

NextLinks ==
    \/ \E name \in LinkNames : CreateReceiverLink(name)
    \/ \E name \in LinkNames : CreateSenderLink(name)
    \/ \E frame \in AttachFrames : IncomingAttach(frame)
    \/ \E frame \in LinkBeginFrames : IncomingBegin(frame)

SpecLinks == Init /\ [][NextLinks]_vars

\* Implicit sessions: the Connection builds a session for an unsolicited Begin
\* with from_incoming_frame, and the session then lives as any other.
ImplicitBeginFrames ==
    {f \in BeginFrames : f.remote_channel = None /\ f.handle_max = 3}

NextImplicit ==
    \/ \E frame \in ImplicitBeginFrames : FromIncomingFrame(frame)
    \/ \E frame \in ImplicitBeginFrames : IncomingBegin(frame)
    \/ Begin("False")
    \/ \E error \in BOOLEAN : End(error, "False")
    \/ IncomingEnd
    \/ \E cs \in ConnectionState : OnConnectionStateChange(cs)

SpecImplicit == Init /\ [][NextImplicit]_vars

\* Reading: connections and whole-frame reads against a reader that delivers,
\* delivers short, times out or fails.  ReaderErrno precedes ReaderTimeout,
\* whose outcome it shares for the first read of a frame.
\* connect() on a transport that is connected, or that never was.
FirstConnection == connected \/ progress.connects = 0

NextRead ==
    \/ \E s \in Streams, ok \in BOOLEAN : FirstConnection /\ Connect(s, ok)
    \/ Close
    \/ ReadStart
    \/ \E k \in (1..MaxChunk) \cup {rd.toread} : ReaderDelivers(k)
    \/ ReaderErrno
    \/ ReaderTimeout
    \/ ReaderEof
    \/ ReaderError

\* Reads do not look at sslopts.
InitRead == InitTransport /\ sslopts = FALSE

SpecRead == InitRead /\ [][NextRead]_vars

\* Negotiation: connect, close, write and negotiate, with and without TLS.
NextNegotiate ==
    \/ \E s \in Streams, ok \in BOOLEAN : FirstConnection /\ Connect(s, ok)
    \/ Close
    \/ \E s \in {TLS_HEADER_FRAME, AMQP_HEADER_FRAME} : Write(s)
    \/ Negotiate

SpecNegotiate == InitTransport /\ [][NextNegotiate]_vars

\* Reconnecting: a transport that is closed and connected again, up to
\* MaxConnects connections, each with its own stream; readexactly hands over
\* all it was asked for or times out.
ReconnectStreams ==
    {WireFrame(sh, 10) \o FollowingFrame :
        sh \in {[size |-> 10, doff |-> 2], [size |-> 12, doff |-> 2]}}

NextReconnect ==
    \/ \E s \in ReconnectStreams, ok \in BOOLEAN : Connect(s, ok)
    \/ Close
    \/ ReadStart
    \/ ReaderDelivers(rd.toread)
    \/ ReaderTimeout

SpecReconnect == InitRead /\ [][NextReconnect]_vars

\* ------------------------------------------------------------ properties
\* C1: an outgoing Transfer attempted while the session is not MAPPED ends with
\* outcome Error, hands no Transfer frame to the Connection and leaves
\* next_outgoing_id, remote_incoming_window and outgoing_window unchanged,
\* whatever remote_incoming_window is.
C1_NotMappedRefused ==
    [][(OutgoingTransfer /\ state /= "MAPPED") =>
          /\ delivery' = "Error"
          /\ out' = << >>
          /\ UNCHANGED <<next_outgoing_id, remote_incoming_window, outgoing_window>>]_vars

\* C2: an outgoing Transfer attempted in MAPPED with remote_incoming_window <= 0
\* ends with outcome Busy, sends no frame and leaves next_outgoing_id,
\* remote_incoming_window and outgoing_window unchanged; and the Transfer
\* frames sent since the last Begin / Flow received stay within the remote
\* incoming window computed from that frame.
C2_BackpressureGate ==
    /\ [][(OutgoingTransfer /\ state = "MAPPED" /\ remote_incoming_window <= 0) =>
             /\ delivery' = "Busy"
             /\ out' = << >>
             /\ UNCHANGED <<next_outgoing_id, remote_incoming_window,
                            outgoing_window>>]_vars
    /\ [](transfers_since_grant > 0 => transfers_since_grant <= window_grant)

C2_Witness ==
    /\ op = "_outgoing_transfer"
    /\ state = "MAPPED"
    /\ delivery = "Busy"
    /\ remote_incoming_window = 0
    /\ window_grant = 2
    /\ transfers_since_grant = 2

\* C3: next_outgoing_id grows by exactly 1 on an attempt with outcome Okay, whose
\* frame carries the value it had before the attempt; it is unchanged on an
\* attempt with outcome Busy or Error, which sends nothing, and by every other
\* handler: the delivery_ids of the sent frames are consecutive.
C3_FlowControlMonotonic ==
    /\ [][OutgoingTransfer =>
             /\ delivery' \in SessionTransferState
             /\ delivery' = "Okay" =>
                   /\ next_outgoing_id' = next_outgoing_id + 1
                   /\ out' = <<TransferFrame(next_outgoing_id)>>
             /\ delivery' \in {"Busy", "Error"} =>
                   /\ next_outgoing_id' = next_outgoing_id
                   /\ out' = << >>]_vars
    /\ [][~OutgoingTransfer =>
             /\ next_outgoing_id' = next_outgoing_id
             /\ \A i \in 1..Len(out') : out'[i].type /= "Transfer"]_vars

C3_Witness ==
    /\ op = "_outgoing_transfer"
    /\ delivery = "Okay"
    /\ next_outgoing_id = 2
    /\ out = <<TransferFrame(1)>>
    /\ state = "MAPPED"

\* C4: counting the incoming Transfers processed since incoming_window was last
\* full (= target_incoming_window >= 1): before the target-th of them no Flow
\* is emitted and the window is target minus their number; the target-th
\* resets the window to target and emits exactly one Flow, carrying
\* incoming_window = target and the advanced next_incoming_id; bound or
\* unbound handle alike.
C4_WindowReplenished ==
    /\ target_incoming_window >= 1
    /\ rx_round <= target_incoming_window
    /\ rx_round < target_incoming_window =>
          /\ flows_round = 0
          /\ incoming_window = target_incoming_window - rx_round
    /\ rx_round = target_incoming_window =>
          /\ flows_round = 1
          /\ incoming_window = target_incoming_window
    /\ (op = "_incoming_transfer" /\ raised = "None") =>
          IF rx_round = target_incoming_window
          THEN out = <<[type |-> "Flow",
                        next_incoming_id |-> next_incoming_id,
                        incoming_window |-> target_incoming_window,
                        next_outgoing_id |-> next_outgoing_id,
                        outgoing_window |-> outgoing_window]>>
          ELSE out = << >>

C4_Witness ==
    /\ op = "_incoming_transfer"
    /\ raised = "None"
    /\ target_incoming_window = 2
    /\ rx_round = 2
    /\ flows_round = 1
    /\ incoming_window = 2
    /\ forwarded = {}
    /\ Len(out) = 1

\* C5: a Begin received in UNMAPPED or BEGIN_SENT leaves the session MAPPED with
\* next_incoming_id, remote_incoming_window, remote_outgoing_window and
\* handle_max taken from the frame; from UNMAPPED exactly one Begin is sent,
\* passing through BEGIN_RCVD; from BEGIN_SENT none is sent.
C5_BeginHandshake ==
    [][\A frame \in BeginFrames :
          (IncomingBegin(frame) /\ state \in {"UNMAPPED", "BEGIN_SENT"}) =>
             /\ state' = "MAPPED"
             /\ next_incoming_id' = frame.next_outgoing_id
             /\ remote_incoming_window' = frame.incoming_window
             /\ remote_outgoing_window' = frame.outgoing_window
             /\ handle_max' = frame.handle_max
             /\ IF state = "UNMAPPED"
                THEN /\ Len(out') = 1
                     /\ out'[1].type = "Begin"
                     /\ set_states' = <<"BEGIN_RCVD", "MAPPED">>
                ELSE /\ out' = << >>
                     /\ set_states' = <<"MAPPED">>]_vars

C5_Witness ==
    /\ op = "_incoming_begin"
    /\ state = "MAPPED"
    /\ set_states = <<"BEGIN_RCVD", "MAPPED">>
    /\ Len(out) = 1
    /\ next_incoming_id = 1
    /\ remote_incoming_window = 2
    /\ remote_outgoing_window = 2

\* C6: whenever the session is MAPPED its remote_channel is set, and the Begin
\* sent in reply to a peer-initiated Begin carries it.
C6_MappedHasRemoteChannel ==
    /\ state = "MAPPED" => remote_channel /= None
    /\ (op = "_incoming_begin" /\ Len(out) = 1) => out[1].remote_channel /= None

\* C7: begin(wait=True) returns only with the session MAPPED.
C7_BeginWaitReturnsMapped ==
    (call.name = "begin" /\ call.wait = "True" /\ call.result = "returned") =>
        state = "MAPPED"

\* C8: once the peer's Begin has made the session MAPPED during the polling of
\* begin(wait=True), the call eventually returns.
C8_BeginWaitTerminates ==
    (pc /= "idle" /\ call.name = "begin" /\ call.wait = "True" /\ state = "MAPPED")
        ~> (pc = "idle")

\* C9: with allow_pipelined_open disabled, begin() without a wait value on an
\* UNMAPPED session raises the configuration error having sent no Begin and
\* with the session still UNMAPPED.
C9_PipelinedOpenRefusedLocally ==
    [][(Begin("False") /\ ~allow_pipelined_open /\ state = "UNMAPPED") =>
          /\ raised' = "ValueError"
          /\ out' = << >>
          /\ state' = "UNMAPPED"]_vars

\* C10: a received End leaves the session UNMAPPED from every state; no End is
\* sent in reply from UNMAPPED, END_SENT, END_RCVD or DISCARDING, and exactly
\* one, passing through END_RCVD, from every other state.
C10_IncomingEnd ==
    [][IncomingEnd =>
          /\ state' = "UNMAPPED"
          /\ IF state \in {"UNMAPPED", "END_SENT", "END_RCVD", "DISCARDING"}
             THEN out' = << >>
             ELSE /\ out' = <<OutgoingEnd(FALSE)>>
                  /\ set_states' = <<"END_RCVD", "UNMAPPED">>]_vars

\* C11: every allocation that succeeds, whether made by create_sender_link,
\* create_receiver_link or a link-creating incoming Attach, takes the smallest
\* integer of [1, handle_max) that is not a key of _output_handles, adds that
\* one key for the new Link and leaves the other entries alone; no two Links
\* of _output_handles carry the same local handle.
C11_FirstFit ==
    /\ [][link_seq' = link_seq + 1 =>
            \E h \in 1..(handle_max - 1) :
                /\ h \notin DOMAIN output_handles
                /\ \A j \in 1..(h - 1) : j \in DOMAIN output_handles
                /\ DOMAIN output_handles' = DOMAIN output_handles \cup {h}
                /\ output_handles'[h].handle = h
                /\ output_handles'[h].id = link_seq'
                /\ \A k \in DOMAIN output_handles : output_handles'[k] = output_handles[k]]_vars
    /\ [](\A h1, h2 \in DOMAIN output_handles :
            output_handles[h1].handle = output_handles[h2].handle => h1 = h2)

C11_Witness ==
    /\ link_seq = 2
    /\ DOMAIN output_handles = {1, 2}
    /\ DOMAIN input_handles /= {}
    /\ op = "create_sender_link"
    /\ raised = "None"

\* C12: when no integer of [1, handle_max) is free, an allocation (by
\* create_receiver_link, create_sender_link or an incoming Attach for an unknown
\* name) ends with ValueError and nothing else, and links and _output_handles
\* are as before.
C12_CapacityError ==
    [][(\A i \in 1..(handle_max - 1) : i \in DOMAIN output_handles) =>
         /\ \A name \in LinkNames :
              CreateReceiverLink(name) \/ CreateSenderLink(name) =>
                  raised' = "ValueError" /\ UNCHANGED <<links, output_handles>>
         /\ \A frame \in AttachFrames :
              IncomingAttach(frame) /\ frame.name \notin DOMAIN links =>
                  raised' = "ValueError" /\ UNCHANGED <<links, output_handles>>]_vars

\* C16: an incoming Attach whose name is already in links binds that Link under
\* the peer's handle in _input_handles, forwards the Attach to it, creates no
\* Link and allocates no output handle; an Attach with an unknown name, when a
\* handle of [1, handle_max) is free, creates exactly one Link of the mirrored
\* role and registers it under the name in links, under the new handle in
\* _output_handles and under the peer's handle in _input_handles.
C16_AttachResolution ==
    [][\A frame \in AttachFrames : IncomingAttach(frame) =>
         IF frame.name \in DOMAIN links
         THEN /\ input_handles'[frame.handle] = links[frame.name]
              /\ DOMAIN input_handles' = DOMAIN input_handles \cup {frame.handle}
              /\ forwarded' = {links[frame.name]}
              /\ raised' = "None"
              /\ UNCHANGED <<links, output_handles, link_seq>>
         ELSE (\E i \in 1..(handle_max - 1) : i \notin DOMAIN output_handles) =>
              /\ link_seq' = link_seq + 1
              /\ DOMAIN links' = DOMAIN links \cup {frame.name}
              /\ links'[frame.name].id = link_seq'
              /\ links'[frame.name].name = frame.name
              /\ links'[frame.name].role /= frame.role
              /\ \A n \in DOMAIN links : links'[n] = links[n]
              /\ DOMAIN output_handles' =
                     DOMAIN output_handles \cup {links'[frame.name].handle}
              /\ links'[frame.name].handle \notin DOMAIN output_handles
              /\ output_handles'[links'[frame.name].handle] = links'[frame.name]
              /\ input_handles'[frame.handle] = links'[frame.name]
              /\ forwarded' = {links'[frame.name]}
              /\ raised' = "None"]_vars

C16_Witness ==
    /\ op = "_incoming_attach"
    /\ raised = "None"
    /\ link_seq = 2
    /\ \E n \in DOMAIN links, h \in DOMAIN input_handles :
          /\ input_handles[h] = links[n]
          /\ links[n].id = 1
          /\ links[n].role = "Sender"
    /\ \E n \in DOMAIN links, h \in DOMAIN input_handles :
          /\ input_handles[h] = links[n]
          /\ links[n].id = 2

\* C17: when the handle allocation fails during an incoming Attach for an
\* unknown name, the handler returns without an exception, and state, links,
\* _output_handles and _input_handles are as before.
C17_AllocationFailureContained ==
    [][\A frame \in AttachFrames :
         /\ IncomingAttach(frame)
         /\ frame.name \notin DOMAIN links
         /\ \A i \in 1..(handle_max - 1) : i \in DOMAIN output_handles
         => /\ raised' = "None"
            /\ state' = state
            /\ UNCHANGED <<links, output_handles, input_handles>>]_vars

\* C18: every Link of links is the value of at most one key of _output_handles
\* and of at most one key of _input_handles.
C18_OneKeyPerLink ==
    \A n \in DOMAIN links :
        /\ Cardinality({h \in DOMAIN output_handles : output_handles[h] = links[n]}) <= 1
        /\ Cardinality({h \in DOMAIN input_handles : input_handles[h] = links[n]}) <= 1

\* C19: every key h of _output_handles satisfies 1 <= h < handle_max.
C19_HandlesBelowHandleMax ==
    \A h \in DOMAIN output_handles : 1 <= h /\ h < handle_max

\* C20: an incoming Flow sets next_incoming_id to the frame's next_outgoing_id,
\* remote_outgoing_window to the frame's outgoing_window, and
\* remote_incoming_window to frame.next_incoming_id + frame.incoming_window -
\* next_outgoing_id for every next_incoming_id the peer supplies, 0 included;
\* only a frame without next_incoming_id gives frame.incoming_window.
C20_FlowWindowRecompute ==
    [][\A frame \in FlowFrames : IncomingFlow(frame) =>
         /\ next_incoming_id' = frame.next_outgoing_id
         /\ remote_outgoing_window' = frame.outgoing_window
         /\ remote_incoming_window' =
                IF frame.next_incoming_id = None
                THEN frame.incoming_window
                ELSE frame.next_incoming_id + frame.incoming_window - next_outgoing_id]_vars

\* C13: a read() that returns the first frame of a connection after one or
\* more attempts at that frame were interrupted by a timeout (whatever part of
\* the header or payload they had consumed) returns the header, channel and
\* payload an uninterrupted read of the stream returns, has consumed the
\* stream exactly to the end of the frame and leaves nothing buffered, so the
\* following frame is read from its first byte.
C13_PartialReadRecovery ==
    /\ rd.phase = "idle"
    /\ op = "read"
    /\ raised = "None"
    /\ progress.frames = 1
    /\ progress.timeouts > 0
    /\ ~progress.failed
    => /\ returned = UninterruptedRead(stream, 0)
       /\ stream_pos = FrameEnd(stream, 0)
       /\ read_buffer.pos = Len(read_buffer.data)

\* C14: for a frame of declared size >= 8 and data offset >= 2 with
\* data_offset * 4 <= size, read without interruption, the payload read()
\* returns is the frame's bytes from position data_offset * 4 to its end.
C14_ExtendedHeaderSkip ==
    LET h == UnpackFrameHeader(SubSeq(stream, 1, 8)) IN
    /\ rd.phase = "idle"
    /\ op = "read"
    /\ raised = "None"
    /\ progress.frames = 1
    /\ progress.timeouts = 0
    /\ ~progress.short
    /\ h.size >= 8
    /\ h.offset >= 2
    /\ h.offset * 4 <= h.size
    => /\ returned.has_payload
       /\ returned.payload = SubSeq(stream, h.offset * 4 + 1, h.size)

\* C15: negotiate() on a transport with TLS configured sends the TLS protocol
\* header and ends without error or with the protocol-mismatch error
\* (ValueError), according to the header the peer echoes; without TLS it sends
\* nothing and returns.
C15_TlsNegotiation ==
    op = "negotiate" =>
        IF sslopts
        THEN out = <<TLS_HEADER_FRAME>> /\ raised \in {"None", "ValueError"}
        ELSE out = << >> /\ raised = "None"

\* C21: an incoming Flow that carries a handle h, 0 included, bound in
\* _input_handles is forwarded to the Link bound to h and to no other; a Flow
\* without a handle is forwarded to the Links of _output_handles, and only
\* when the recomputed remote_incoming_window is positive.
C21_FlowRouting ==
    [][\A frame \in FlowFrames : IncomingFlow(frame) =>
         IF frame.handle /= None
         THEN frame.handle \in DOMAIN input_handles =>
                  forwarded' = {input_handles[frame.handle]}
         ELSE forwarded' = IF remote_incoming_window' > 0
                           THEN {output_handles[h] : h \in DOMAIN output_handles}
                           ELSE {}]_vars

\* C22: when from_incoming_frame returns the session it built for an
\* unsolicited Begin, the session has processed that Begin as an explicitly
\* created UNMAPPED session does: it has replied with its own Begin, it is
\* MAPPED, and next_incoming_id and the remote windows hold the frame's values.
C22_ImplicitSessionMapped ==
    [][\A frame \in ImplicitBeginFrames : FromIncomingFrame(frame) =>
         /\ state' = "MAPPED"
         /\ \E i \in DOMAIN out' : out'[i].type = "Begin"
         /\ next_incoming_id' = frame.next_outgoing_id
         /\ remote_incoming_window' = frame.incoming_window
         /\ remote_outgoing_window' = frame.outgoing_window]_vars

\* C23: a step that takes the session from UNMAPPED or DISCARDING into
\* END_SENT hands an End frame to the Connection, so that END_SENT is never
\* held without an End sent since the session left UNMAPPED.
C23_EndSentMeansEndSent ==
    [][state' = "END_SENT" /\ state \in {"UNMAPPED", "DISCARDING"} =>
         \E i \in DOMAIN out' : out'[i].type = "End"]_vars

\* C24: outgoing_window and incoming_window are never negative.
C24_WindowsNonNegative ==
    outgoing_window >= 0 /\ incoming_window >= 0

\* C25: after a read was interrupted, the transport closed and connected
\* again, the first frame read on the new connection is made of bytes of the
\* new connection only: read without interruption, it is the first frame of
\* the new stream.
C25_NoStaleBytesAfterReconnect ==
    /\ progress.connects >= 2
    /\ progress.frames = 1
    /\ progress.timeouts = 0
    /\ ~progress.short
    /\ rd.phase = "idle"
    /\ op = "read"
    /\ raised = "None"
    => returned = UninterruptedRead(stream, 0)

====
